---- MODULE Spec2Model ----
(***************************************************************************)
(* Signal synthesis and spectral-analysis pipeline of the spectrograph:    *)
(* TFFT.SignalCollection (mixer), TFFT.SignalTransformGraph.render and     *)
(* SCS.SignalTransformGraphView.render (conditioner), getBandFrequency     *)
(* (band mapper).                                                          *)
(*                                                                         *)
(* Numbers.  Sample values are floating-point numbers with MantissaBits    *)
(* bits of mantissa, written as integers in units of 1/FixedOne; every     *)
(* store into a signal buffer rounds to nearest, ties to even (Fround).    *)
(* Magnitudes use the same units.  Values that can be infinite or NaN      *)
(* (decibels) are records [t, v]: t is "fin", "-inf", "+inf", "nan" or     *)
(* "undef" (JavaScript undefined); v is the value in thousandths when      *)
(* t = "fin" and 0 otherwise.  Frequencies in Hz are integers in units of  *)
(* 1/HzUnit, in which every quotient the code forms is exact.              *)
(*                                                                         *)
(* Arrays.  An array is [length, at]: its length, and its elements at the  *)
(* indices below ProbeCount (0-based, as in the code).  The buffers of     *)
(* BUFFER_SIZE samples are followed at those indices only.                 *)
(***************************************************************************)
EXTENDS Integers, Sequences, FiniteSets, TLC

(* ------------------------------------------------------------------ *)
(* Configuration constants                                             *)
(* ------------------------------------------------------------------ *)
BUFFER_SIZE == 2048
SAMPLE_RATE == 44100

(* ------------------------------------------------------------------ *)
(* Bounds of the model                                                 *)
(* ------------------------------------------------------------------ *)
\* mantissa width of a stored sample (24 in a Float32Array)
MantissaBits == 3
\* units per 1.0 of a sample or magnitude
FixedOne == 4
\* most descriptors in the application's collection
MaxSignals == 2
\* most descriptors mixed by the mixer on its own
MaxMixed == 3
\* most Noise descriptors among them
MaxNoise == 1
\* largest number a noise function is called with
MaxX == 1
\* most calls of noise functions
MaxCalls == 3
\* outcomes of one stochastic (Noise) generator call
NoiseSeeds == 2
\* leading indices of an array whose elements the model follows
ProbeCount == 4
\* longest magnitude sequence handed to the conditioner on its own
MaxBands == 3
\* largest magnitude handed to the conditioner on its own, in 1/FixedOne
MaxMag == 6

(* ------------------------------------------------------------------ *)
(* Arithmetic helpers                                                  *)
(* ------------------------------------------------------------------ *)
\* Body of the value v, with v evaluated once
Let(v, Body(_)) == CHOOSE out \in {Body(r) : r \in {v}} : TRUE

\* the function f, with its values evaluated once
Strict(f) == f @@ <<>>

Abs(x) == IF x < 0 THEN -x ELSE x

Sign(x) == IF x < 0 THEN -1 ELSE 1

RECURSIVE Pow2(_)
Pow2(n) == IF n <= 0 THEN 1 ELSE 2 * Pow2(n - 1)

\* the spacing of representable values around magnitude a
RECURSIVE Quantum(_, _)
Quantum(a, q) == IF a < q * Pow2(MantissaBits) THEN q ELSE Quantum(a, 2 * q)

\* round to nearest representable value, ties to even
Fround(x) ==
    IF Abs(x) < Pow2(MantissaBits) THEN x
    ELSE Let(Quantum(Abs(x), 1), LAMBDA q :
             LET lo == Abs(x) \div q
                 r == Abs(x) % q
                 up == \/ 2 * r > q
                       \/ (2 * r = q /\ lo % 2 = 1)
             IN Sign(x) * q * (IF up THEN lo + 1 ELSE lo))

Min(a, b) == IF a < b THEN a ELSE b

RECURSIVE FloorLog2(_)
FloorLog2(m) == IF m < 2 THEN 0 ELSE 1 + FloorLog2(m \div 2)

\* the n next binary digits of log2 of the mantissa y (in 1/16384 units)
RECURSIVE FracBits(_, _, _)
FracBits(y, n, acc) ==
    IF n = 0 THEN acc
    ELSE Let((y * y) \div 16384, LAMBDA y2 :
             IF y2 >= 32768 THEN FracBits(y2 \div 2, n - 1, 2 * acc + 1)
                            ELSE FracBits(y2, n - 1, 2 * acc))

\* log2(m) in 1/1024 units, m >= 1
Log2Q10(m) ==
    LET e == FloorLog2(m)
        y == IF e <= 14 THEN m * Pow2(14 - e) ELSE m \div Pow2(e - 14)
    IN e * 1024 + FracBits(y, 10, 0)

\* ln(m) in thousandths, m >= 1
MilliLn(m) == (Log2Q10(m) * 6931) \div 10240

\* Math.log(1.0) and Math.log(10), their arguments in 1/FixedOne units
LnOfOne == MilliLn(FixedOne)
LnOfTen == MilliLn(10 * FixedOne) - LnOfOne

(* ------------------------------------------------------------------ *)
(* IEEE values                                                         *)
(* ------------------------------------------------------------------ *)
Fin(v) == [t |-> "fin", v |-> v]
NegInf == [t |-> "-inf", v |-> 0]
PosInf == [t |-> "+inf", v |-> 0]
NaN == [t |-> "nan", v |-> 0]
Undefined == [t |-> "undef", v |-> 0]

IsFinite(a) == a.t = "fin"

\* a - b
ExtSub(a, b) ==
    CASE a.t \in {"nan", "undef"} \/ b.t \in {"nan", "undef"} -> NaN
      [] a.t = "fin" /\ b.t = "fin" -> Fin(a.v - b.v)
      [] a.t = b.t -> NaN
      [] a.t = "fin" -> IF b.t = "-inf" THEN PosInf ELSE NegInf
      [] OTHER -> a

\* a / b and a * b
ExtDiv(a, b) ==
    CASE a.t \in {"nan", "undef"} \/ b.t \in {"nan", "undef"} -> NaN
      [] a.t = "fin" /\ b.t = "fin" ->
            IF b.v = 0
              THEN (IF a.v = 0 THEN NaN ELSE IF a.v > 0 THEN PosInf ELSE NegInf)
              ELSE Fin(Sign(a.v) * Sign(b.v)
                       * ((2 * Abs(a.v) * 1000 + Abs(b.v)) \div (2 * Abs(b.v))))
      [] a.t = "fin" -> Fin(0)
      [] b.t = "fin" -> IF (a.t = "+inf") = (b.v >= 0) THEN PosInf ELSE NegInf
      [] OTHER -> NaN

ExtMul(a, b) ==
    CASE a.t \in {"nan", "undef"} \/ b.t \in {"nan", "undef"} -> NaN
      [] a.t = "fin" /\ b.t = "fin" ->
            Fin(Sign(a.v) * Sign(b.v) * ((2 * Abs(a.v) * Abs(b.v) + 1000) \div 2000))
      [] (a.t = "fin" /\ a.v = 0) \/ (b.t = "fin" /\ b.v = 0) -> NaN
      [] OTHER ->
            LET neg(x) == x.t = "-inf" \/ (x.t = "fin" /\ x.v < 0)
            IN IF neg(a) = neg(b) THEN PosInf ELSE NegInf

\* a < b; false when either side is NaN or undefined
ExtLt(a, b) ==
    CASE a.t \in {"nan", "undef"} \/ b.t \in {"nan", "undef"} -> FALSE
      [] a.t = "fin" /\ b.t = "fin" -> a.v < b.v
      [] a.t = b.t -> FALSE
      [] OTHER -> a.t = "-inf" \/ b.t = "+inf"

ExtLe(a, b) ==
    /\ a.t \notin {"nan", "undef"}
    /\ b.t \notin {"nan", "undef"}
    /\ ~ExtLt(b, a)

(* ------------------------------------------------------------------ *)
(* Arrays and the underscore / d3 helpers the code calls               *)
(* ------------------------------------------------------------------ *)
Probes(n) == 0..(Min(n, ProbeCount) - 1)

Array(n, f(_)) == [length |-> n, at |-> Strict([i \in Probes(n) |-> f(i)])]

\* _.map(array, f)
Map(array, f(_)) ==
    Let(array, LAMBDA a :
        [length |-> a.length, at |-> Strict([i \in DOMAIN a.at |-> f(a.at[i])])])

\* d3.max: the first element that compares with itself, then every later
\* element greater than the running maximum; undefined when there is none
RECURSIVE d3maxFrom(_, _, _)
d3maxFrom(array, i, a) ==
    IF i \notin DOMAIN array.at THEN a
    ELSE LET b == array.at[i]
         IN Let(IF a.t = "undef"
                  THEN (IF ExtLe(b, b) THEN b ELSE Undefined)
                  ELSE (IF ExtLt(a, b) THEN b ELSE a),
                LAMBDA m : d3maxFrom(array, i + 1, m))

\* the first value taken for the maximum, whatever follows it
d3maxFirst(array) ==
    IF 0 \in DOMAIN array.at THEN array.at[0] ELSE Undefined

d3max(array) == Let(array, LAMBDA arr : d3maxFrom(arr, 0, Undefined))

RECURSIVE d3minFrom(_, _, _)
d3minFrom(array, i, a) ==
    IF i \notin DOMAIN array.at THEN a
    ELSE LET b == array.at[i]
         IN Let(IF a.t = "undef"
                  THEN (IF ExtLe(b, b) THEN b ELSE Undefined)
                  ELSE (IF ExtLt(b, a) THEN b ELSE a),
                LAMBDA m : d3minFrom(array, i + 1, m))

d3min(array) == Let(array, LAMBDA arr : d3minFrom(arr, 0, Undefined))

(* ------------------------------------------------------------------ *)
(* Math extras                                                         *)
(* ------------------------------------------------------------------ *)
\* Math.log of a number x given in 1/FixedOne units
MathLog(x) ==
    IF x < 0 THEN NaN
    ELSE IF x = 0 THEN NegInf
    ELSE Fin(MilliLn(x) - LnOfOne)

log10(x) == ExtDiv(MathLog(x), Fin(LnOfTen))

toDecibels(x) == ExtMul(Fin(20000), log10(x))

zeroFunction == Fin(0)

(* ------------------------------------------------------------------ *)
(* Band frequency mapper                                               *)
(* ------------------------------------------------------------------ *)
\* units per Hz: 2.0 / BUFFER_SIZE is a whole number of them
HzUnit == BUFFER_SIZE

\* TFFT.BANDWIDTH = 2.0 / TFFT.BUFFER_SIZE * TFFT.SAMPLE_RATE / 2.0
BANDWIDTH == ((((2 * HzUnit) \div BUFFER_SIZE) * SAMPLE_RATE) \div 2)

\* band-edge instead of band-centre
getBandFrequencyEdge(index) == [error |-> "none", hz |-> BANDWIDTH * index]

\* TFFT.getBandFrequency: no check of the index
getBandFrequency(index) ==
    [error |-> "none", hz |-> BANDWIDTH * index + (BANDWIDTH \div 2)]

DEFAULT_BUFFER_SIZE == 2048
DEFAULT_SAMPLE_RATE == 44100

DEFAULT_BANDWIDTH ==
    ((((2 * HzUnit) \div DEFAULT_BUFFER_SIZE) * DEFAULT_SAMPLE_RATE) \div 2)

\* SCS.getBandFrequency
SCS_getBandFrequency(index) ==
    [error |-> "none",
     hz |-> DEFAULT_BANDWIDTH * index + (DEFAULT_BANDWIDTH \div 2)]

(* ------------------------------------------------------------------ *)
(* Waveform generator and forward transform (dsp.js collaborators)     *)
(* ------------------------------------------------------------------ *)
WaveForms == {"SINE", "TRIANGLE", "SAW", "SQUARE", "NOISE"}

\* sin(2*pi*k/8) in thousandths
SineTable == <<0, 707, 1000, 707, 0, -707, -1000, -707>>

\* sample i of a unit-amplitude wave, in 1/FixedOne units, at phase
\* p / sampleRate of its cycle
WaveValue(waveForm, p, sampleRate, seed, i) ==
    CASE waveForm = "SQUARE" ->
            IF 2 * p < sampleRate THEN FixedOne ELSE -FixedOne
      [] waveForm = "SAW" ->
            ((2 * FixedOne * p) \div sampleRate)
              - (IF 2 * p < sampleRate THEN 0 ELSE 2 * FixedOne)
      [] waveForm = "TRIANGLE" ->
            IF 2 * p < sampleRate
              THEN FixedOne - ((4 * FixedOne * p) \div sampleRate)
              ELSE ((4 * FixedOne * p) \div sampleRate) - 3 * FixedOne
      [] waveForm = "NOISE" ->
            FixedOne * (((seed * 7 + i * (seed + 2)) % 3) - 1)
      [] OTHER ->
            (FixedOne * SineTable[((8 * p) \div sampleRate) + 1]) \div 1000

\* new Oscillator(type, frequency, amplitude, bufferSize, sampleRate)
Oscillator(waveForm, frequency, amplitude, bufferSize, sampleRate) ==
    [waveForm |-> waveForm, frequency |-> frequency, amplitude |-> amplitude,
     bufferSize |-> bufferSize, sampleRate |-> sampleRate,
     signal |-> Array(bufferSize, LAMBDA i : 0)]

\* Oscillator.generate: fills and returns this.signal.  A Noise generator is
\* stochastic per call; seed names the outcome drawn
generate(osc, seed) ==
    Array(osc.bufferSize,
          LAMBDA i : Fround(osc.amplitude
                            * WaveValue(osc.waveForm,
                                        (i * osc.frequency) % osc.sampleRate,
                                        osc.sampleRate, seed, i)))

\* Oscillator.addSignal: index-aligned addition into this.signal
addSignal(acc, signal) ==
    Let(<<acc, signal>>, LAMBDA p :
        [length |-> p[1].length,
         at |-> Strict([i \in DOMAIN p[1].at |->
                    IF i < p[2].length /\ i \in DOMAIN p[2].at
                      THEN Fround(p[1].at[i] + p[2].at[i])
                      ELSE p[1].at[i]])])

\* new FFT(bufferSize, sampleRate).forward(buffer): bufferSize / 2 magnitudes,
\* none negative, all 0 for a silent buffer; a buffer of another length is
\* refused.  Band k stands for the sample pair 2k, 2k + 1.
forward(bufferSize, sampleRate, buffer) ==
    Let(buffer, LAMBDA b :
        IF b.length # bufferSize
          THEN [error |-> "SizeError", spectrum |-> Array(0, LAMBDA k : 0)]
          ELSE [error |-> "none",
                spectrum |->
                  [length |-> bufferSize \div 2,
                   at |-> Strict([k \in {j \in Probes(bufferSize \div 2) :
                                            2 * j + 1 \in DOMAIN b.at} |->
                              Fround(Abs(b.at[2 * k]) + Abs(b.at[2 * k + 1]))])]])

(* ------------------------------------------------------------------ *)
(* TFFT.SignalModel / TFFT.SignalCollection                            *)
(* ------------------------------------------------------------------ *)
\* SignalModel.defaults
defaults == [waveForm |-> "SINE", frequency |-> 400, amplitude |-> 1]

\* buffer size and sample rate passed in each other's place
getOscillatorSwapped(signal) ==
    Oscillator(signal.waveForm, signal.frequency, signal.amplitude,
               SAMPLE_RATE, BUFFER_SIZE)

getOscillator(signal) ==
    Oscillator(signal.waveForm, signal.frequency, signal.amplitude,
               BUFFER_SIZE, SAMPLE_RATE)

\* signal.getOscillator().generate() of every member: the buffers the
\* generator returns in one getTotalSignal, in collection order
Generated(models, seeds) ==
    Strict([k \in 1..Len(models) |-> generate(getOscillator(models[k]), seeds[k])])

\* _.each(this.rest(), ...): the accumulator after the signals from index k
\* on, gens[k] being the buffer generated for member k
RECURSIVE eachRest(_, _, _)
eachRest(gens, k, acc) ==
    IF k > Len(gens) THEN acc
    ELSE eachRest(gens, k + 1, addSignal(acc, gens[k]))

\* sumOscillator.generate() left out: the accumulator starts silent
getTotalSignalNoGenerate(models, seeds) ==
    IF Len(models) = 0
      THEN [error |-> "TypeError", signal |-> Array(0, LAMBDA i : 0),
            generated |-> <<>>]
      ELSE Let(Generated(models, seeds), LAMBDA gens :
               [error |-> "none",
                signal |-> eachRest(gens, 2, getOscillator(models[1]).signal),
                generated |-> gens])

\* _.each over the whole collection instead of this.rest(): the first
\* descriptor is added twice
getTotalSignalEachAll(models, seeds) ==
    IF Len(models) = 0
      THEN [error |-> "TypeError", signal |-> Array(0, LAMBDA i : 0),
            generated |-> <<>>]
      ELSE Let(Generated(models, seeds), LAMBDA gens :
               [error |-> "none",
                signal |-> eachRest(gens, 1, gens[1]),
                generated |-> gens])

\* an empty collection answered with a silent buffer
getTotalSignalZeroFill(models, seeds) ==
    IF Len(models) = 0
      THEN [error |-> "none", signal |-> Array(BUFFER_SIZE, LAMBDA i : 0),
            generated |-> <<>>]
      ELSE Let(Generated(models, seeds), LAMBDA gens :
               [error |-> "none",
                signal |-> eachRest(gens, 2, gens[1]),
                generated |-> gens])

\* getTotalSignal: this.first() of an empty collection is undefined, and the
\* call of getOscillator on it throws a TypeError.  generated records what
\* the generator returned.
getTotalSignal(models, seeds) ==
    IF Len(models) = 0
      THEN [error |-> "TypeError", signal |-> Array(0, LAMBDA i : 0),
            generated |-> <<>>]
      ELSE Let(Generated(models, seeds), LAMBDA gens :
               [error |-> "none",
                signal |-> eachRest(gens, 2, gens[1]),
                generated |-> gens])

\* getFFT: fft.forward(this.getTotalSignal()); total records the outcome of
\* the getTotalSignal call
getFFT(models, seeds) ==
    Let(getTotalSignal(models, seeds), LAMBDA tot :
        IF tot.error # "none"
          THEN [error |-> tot.error, spectrum |-> Array(0, LAMBDA k : 0),
                total |-> tot]
          ELSE Let(forward(BUFFER_SIZE, SAMPLE_RATE, tot.signal), LAMBDA fwd :
                   [error |-> fwd.error, spectrum |-> fwd.spectrum, total |-> tot]))

(* ------------------------------------------------------------------ *)
(* Conditioner: the decibel conversion and normalization of render     *)
(* ------------------------------------------------------------------ *)
\* normalized against the minimum instead of the maximum
TFFT_conditionMinPeak(magnitudes) ==
    Let(Map(magnitudes, toDecibels), LAMBDA spectrum :
    Let(d3min(spectrum), LAMBDA spectrumMin :
    Let(d3max(spectrum), LAMBDA spectrumMax :
        [data |-> Map(spectrum, LAMBDA s : ExtSub(s, spectrumMin)),
         peak |-> spectrumMax,
         domain |-> <<spectrumMin, spectrumMax>>])))

\* TFFT.SignalTransformGraph.render, from fft.spectrum to the data bound to
\* the bars and the domain of this.y
TFFT_condition(magnitudes) ==
    Let(Map(magnitudes, toDecibels), LAMBDA spectrum :
    Let(d3min(spectrum), LAMBDA spectrumMin :
    Let(d3max(spectrum), LAMBDA spectrumMax :
        [data |-> Map(spectrum, LAMBDA s : ExtSub(s, spectrumMax)),
         peak |-> spectrumMax,
         domain |-> <<spectrumMin, spectrumMax>>])))

\* SCS.SignalTransformGraphView.render, likewise
SCS_condition(magnitudes) ==
    Let(Map(magnitudes, toDecibels), LAMBDA spectrum :
    Let(d3max(spectrum), LAMBDA spectrumMax :
    Let(Map(spectrum, LAMBDA s : ExtSub(s, spectrumMax)), LAMBDA normalized :
    Let(d3min(normalized), LAMBDA spectrumMin :
        [data |-> normalized,
         peak |-> spectrumMax,
         domain |-> <<spectrumMin, Fin(0)>>]))))

(* ------------------------------------------------------------------ *)
(* State                                                               *)
(* ------------------------------------------------------------------ *)
(* ------------------------------------------------------------------ *)
(* The x axis                                                          *)
(* ------------------------------------------------------------------ *)
\* the number whole + num / den, 0 <= num < den
MixedNumber(whole, num, den) == [whole |-> whole, num |-> num, den |-> den]

\* d3.scale.linear().domain(domain).range(range) applied to v, for
\* domain[1] <= v and an increasing range: range[1] + span * t with
\* t = (v - domain[1]) / (domain[2] - domain[1]), kept exact
linear(domain, range, v) ==
    LET dspan == domain[2] - domain[1]
        span == range[2] - range[1]
        dv == v - domain[1]
    IN MixedNumber(range[1] + (span \div dspan) * dv
                     + ((span % dspan) * dv) \div dspan,
                   ((span % dspan) * dv) % dspan,
                   dspan)

\* Math.round of a positive frequency, in Hz
MathRound(hz) == (2 * hz + HzUnit) \div (2 * HzUnit)

\* TFFT.SignalTransformGraph.initialize, the text of the label of tick d
xLabel(d) ==
    Let(MathRound(getBandFrequency(d).hz), LAMBDA n : n - (n % 5))

\* SCS.SignalTransformGraphView.initialize: var frequency
frequency(i) ==
    linear(<<0, DEFAULT_BUFFER_SIZE \div 2>>,
           <<0, SCS_getBandFrequency(DEFAULT_BUFFER_SIZE \div 2).hz>>,
           i)

(* ------------------------------------------------------------------ *)
(* Math.noise of mathextras.js                                         *)
(* ------------------------------------------------------------------ *)
Digits == <<"0", "1", "2", "3", "4", "5", "6", "7", "8", "9">>

\* an argument of a noise function: a number (0..9, or -0) or a string
NumberArg(n) == [kind |-> "number", v |-> n, neg |-> FALSE, s |-> ""]
NegativeZero == [kind |-> "number", v |-> 0, neg |-> TRUE, s |-> ""]
StringArg(str) == [kind |-> "string", v |-> 0, neg |-> FALSE, s |-> str]

\* the property key memo[x] and `x in memo` use: String(x); -0 gives "0"
PropertyKey(x) == IF x.kind = "string" THEN x.s ELSE Digits[x.v + 1]

\* names every object inherits from Object.prototype (two of them)
ObjectPrototype == {"toString", "constructor"}

\* a number n / d, and an inherited member of Object.prototype
Number(n, d) == [t |-> "number", n |-> n, d |-> d, name |-> ""]
Inherited(key) == [t |-> "function", n |-> 0, d |-> 1, name |-> key]

\* var memo = {}
EmptyMemo == [key \in {} |-> Number(0, 1)]

\* x in memo: own and inherited properties
In(key, memo) == key \in DOMAIN memo \/ key \in ObjectPrototype

\* memo[x]
Get(memo, key) == IF key \in DOMAIN memo THEN memo[key] ELSE Inherited(key)

\* outcomes of Math.random() that are followed: 1/4 and 3/4
RandomOutcomes == {<<1, 4>>, <<3, 4>>}

\* Math.noise(amplitude): a function closed over amplitude and its own memo
noise(amplitude) == [amplitude |-> amplitude, memo |-> EmptyMemo]

\* a noise function that never consults its memo
noiseCallNoMemo(closure, x, r1, r2) ==
    Let(Number(closure.amplitude * r1[1] * (IF 2 * r2[1] > r2[2] THEN -1 ELSE 1),
               r1[2]),
        LAMBDA v : [out |-> v,
                    memo |-> (PropertyKey(x) :> v) @@ closure.memo,
                    draws |-> 2])

\* the function Math.noise returns, called with x; r1 and r2 are what the
\* two Math.random() calls return if they are made
noiseCall(closure, x, r1, r2) ==
    IF In(PropertyKey(x), closure.memo)
      THEN [out |-> Get(closure.memo, PropertyKey(x)),
            memo |-> closure.memo,
            draws |-> 0]
      ELSE Let(Number(closure.amplitude * r1[1]
                        * (IF 2 * r2[1] > r2[2] THEN -1 ELSE 1),
                      r1[2]),
               LAMBDA v : [out |-> v,
                           memo |-> (PropertyKey(x) :> v) @@ closure.memo,
                           draws |-> 2])

VARIABLES
    \* the application: TFFT.Signals and its SignalTransformGraph
    models,      \* the collection's descriptors, in insertion order
    lastOp,      \* the last mutation of the collection
    renders,     \* calls of render that mutation's events made
    total,       \* outcome of the last getTotalSignal call
    spectrum,    \* fft.spectrum of the last transform
    rects,       \* data bound to the chart's bars
    y,           \* domain of this.y
    thrown,      \* error that escaped the last mutation, "none" if none
    \* the mixer on its own
    descs, reordered, mixed, mixedPerm,
    \* the conditioner on its own
    magnitudes, conditioned,
    \* the band mapper on its own and at its call sites
    bandSite, bandIndex, bandOut,
    \* the noise functions on their own
    closures,    \* the functions Math.noise has returned: amplitude and memo
    firstOut,    \* per function, what the first call with each key returned
    noiseCalls,  \* calls of noise functions made so far
    lastNoise,   \* the last call: function, argument, result, draws made
    \* the x axis of the views
    axisSite,    \* what was last placed or labelled, and by which view
    axisIndex,   \* its band index
    axisOut      \* where on the axis it was put, and the text of a label

appVars == <<models, lastOp, renders, total, spectrum, rects, y, thrown>>
mixVars == <<descs, reordered, mixed, mixedPerm>>
condVars == <<magnitudes, conditioned>>
bandVars == <<bandSite, bandIndex, bandOut>>
noiseVars == <<closures, firstOut, noiseCalls, lastNoise>>
axisVars == <<axisSite, axisIndex, axisOut>>
vars == <<appVars, mixVars, condVars, bandVars, noiseVars, axisVars>>

NoArray == Array(0, LAMBDA i : 0)
Idle == [error |-> "idle", signal |-> NoArray, generated |-> <<>>]

Descriptor(w, f, a) == [waveForm |-> w, frequency |-> f, amplitude |-> a]

\* the descriptors the model draws from: the application's initial signal,
\* a loud square, a saw, a noise source and a silent sine
Descriptors ==
    {Descriptor("SINE", 7040, 1), Descriptor("SQUARE", 7040, 2),
     Descriptor("SAW", 7040, 1), Descriptor("NOISE", defaults.frequency, 1),
     Descriptor(defaults.waveForm, defaults.frequency, 0)}

\* the descriptors the mixer on its own draws from
MixDescriptors ==
    {Descriptor("SINE", 7040, 1), Descriptor("SAW", 7040, 1),
     Descriptor("SQUARE", 7040, 2), Descriptor("NOISE", defaults.frequency, 1)}

NoiseCount(sq) == Cardinality({k \in 1..Len(sq) : sq[k].waveForm = "NOISE"})

\* one outcome per generator call; a deterministic generator has one outcome
SeedChoices(ms) ==
    {sd \in [1..Len(ms) -> 1..NoiseSeeds] :
        \A k \in 1..Len(ms) : ms[k].waveForm # "NOISE" => sd[k] = 1}

AppIdle ==
    /\ models = <<>>
    /\ lastOp = "none"
    /\ renders = 0
    /\ total = Idle
    /\ spectrum = NoArray
    /\ rects = Array(BUFFER_SIZE \div 2, LAMBDA i : zeroFunction)
    /\ y = <<Fin(0), Fin(1000)>>
    /\ thrown = "none"

MixIdle == descs = <<>> /\ reordered = <<>> /\ mixed = Idle /\ mixedPerm = Idle

CondIdle == magnitudes = NoArray /\ conditioned = [by |-> "none"]

BandIdle == bandSite = "none" /\ bandIndex = 0 /\ bandOut = [by |-> "none"]

AxisIdle == axisSite = "none" /\ axisIndex = 0 /\ axisOut = [by |-> "none"]

NoCall == [f |-> "none"]

\* no function made yet
NoClosures == [f \in {} |-> noise(0)]

NoiseIdle ==
    /\ closures = NoClosures
    /\ firstOut = NoClosures
    /\ noiseCalls = 0
    /\ lastNoise = NoCall

(* ------------------------------------------------------------------ *)
(* The application: mutations of TFFT.Signals, each followed by the    *)
(* renders its events trigger (this.collection.on("all", this.render)) *)
(* ------------------------------------------------------------------ *)
\* SignalTransformGraph.render on the collection ms; cur holds the chart as
\* it was.  An error of getFFT escapes before anything is drawn.
render(ms, seeds, cur) ==
    Let(getFFT(ms, seeds), LAMBDA fft :
        IF fft.error # "none"
          THEN [thrown |-> fft.error, total |-> fft.total,
                spectrum |-> cur.spectrum, rects |-> cur.rects, y |-> cur.y]
          ELSE Let(TFFT_condition(fft.spectrum), LAMBDA cond :
                [thrown |-> "none", total |-> fft.total,
                 spectrum |-> fft.spectrum, rects |-> cond.data, y |-> cond.domain]))

Rendered(ms, op, n) ==
    \E seeds \in SeedChoices(ms) :
      \E r \in {render(ms, seeds, [spectrum |-> spectrum, rects |-> rects, y |-> y])} :
           /\ models' = ms
           /\ lastOp' = op
           /\ renders' = n
           /\ total' = r.total
           /\ spectrum' = r.spectrum
           /\ rects' = r.rects
           /\ y' = r.y
           /\ thrown' = r.thrown

\* collection.add(signal): one "add" event
Add(d) ==
    /\ Len(models) < MaxSignals
    /\ Rendered(Append(models, d), "add", 1)
    /\ UNCHANGED <<mixVars, condVars, bandVars, noiseVars, axisVars>>

\* collection.remove(signal): one "remove" event
Remove(i) ==
    /\ i \in 1..Len(models)
    /\ Rendered(SubSeq(models, 1, i - 1) \o SubSeq(models, i + 1, Len(models)),
                "remove", 1)
    /\ UNCHANGED <<mixVars, condVars, bandVars, noiseVars, axisVars>>

\* model.set(attributes) on a member: one "change:<attribute>" event for each
\* attribute that changes, then one "change" event, each reaching the
\* collection's "all" handlers
Set(i, d) ==
    /\ i \in 1..Len(models)
    /\ d # models[i]
    /\ Rendered([models EXCEPT ![i] = d], "set",
                1 + Cardinality({a \in {"waveForm", "frequency", "amplitude"} :
                                    models[i][a] # d[a]}))
    /\ UNCHANGED <<mixVars, condVars, bandVars, noiseVars, axisVars>>

Init == AppIdle /\ MixIdle /\ CondIdle /\ BandIdle /\ NoiseIdle /\ AxisIdle

Next ==
    \/ \E d \in Descriptors : Add(d)
    \/ \E i \in 1..MaxSignals : Remove(i)
    \/ \E i \in 1..MaxSignals, d \in Descriptors : Set(i, d)

Spec == Init /\ [][Next]_vars

(* ------------------------------------------------------------------ *)
(* The mixer on its own: getTotalSignal on a drawn sequence of         *)
(* descriptors and on a permutation of it                              *)
(* ------------------------------------------------------------------ *)
RECURSIVE SeqsUpTo(_, _)
SeqsUpTo(S, n) ==
    IF n = 0 THEN {<<>>}
    ELSE LET shorter == SeqsUpTo(S, n - 1)
         IN shorter \cup {Append(sq, x) : sq \in {t \in shorter : Len(t) = n - 1}, x \in S}

Perms(n) ==
    {f \in [1..n -> 1..n] : \A a, b \in 1..n : a # b => f[a] # f[b]}

Permuted(sq, f) == [k \in 1..Len(sq) |-> sq[f[k]]]

MixInit ==
    /\ descs \in {sq \in SeqsUpTo(MixDescriptors, MaxMixed) : NoiseCount(sq) <= MaxNoise}
    /\ reordered \in {Permuted(descs, f) : f \in Perms(Len(descs))}
    /\ mixed = Idle
    /\ mixedPerm = Idle
    /\ AppIdle /\ CondIdle /\ BandIdle /\ NoiseIdle /\ AxisIdle

MixBoth ==
    /\ mixed = Idle
    /\ \E s1 \in SeedChoices(descs), s2 \in SeedChoices(reordered) :
          /\ mixed' = getTotalSignal(descs, s1)
          /\ mixedPerm' = getTotalSignal(reordered, s2)
    /\ UNCHANGED <<descs, reordered, appVars, condVars, bandVars, noiseVars, axisVars>>

MixNext == MixBoth

SpecMix == MixInit /\ [][MixNext]_vars

(* ------------------------------------------------------------------ *)
(* The conditioner on its own: both renders' conversion on a drawn     *)
(* magnitude sequence                                                  *)
(* ------------------------------------------------------------------ *)
MagnitudeArrays ==
    UNION {{[length |-> n, at |-> f] : f \in [0..(n - 1) -> 0..MaxMag]} :
              n \in 1..MaxBands}

CondInit ==
    /\ magnitudes \in MagnitudeArrays
    /\ conditioned = [by |-> "none"]
    /\ AppIdle /\ MixIdle /\ BandIdle /\ NoiseIdle /\ AxisIdle

ConditionTFFT ==
    /\ conditioned.by = "none"
    /\ conditioned' = [by |-> "TFFT", out |-> TFFT_condition(magnitudes)]
    /\ UNCHANGED <<magnitudes, appVars, mixVars, bandVars, noiseVars, axisVars>>

ConditionSCS ==
    /\ conditioned.by = "none"
    /\ conditioned' = [by |-> "SCS", out |-> SCS_condition(magnitudes)]
    /\ UNCHANGED <<magnitudes, appVars, mixVars, bandVars, noiseVars, axisVars>>

CondNext == ConditionTFFT \/ ConditionSCS

SpecCond == CondInit /\ [][CondNext]_vars

(* ------------------------------------------------------------------ *)
(* The band mapper: direct calls, and the calls the views make         *)
(* ------------------------------------------------------------------ *)
\* indices a direct call is made with: the valid ones and a margin around
BandIndices == (-2)..((BUFFER_SIZE \div 2) + 2)

\* this.x.ticks(16) of the domain [0, BUFFER_SIZE / 2]: step 50
xTicks == {d \in 0..(BUFFER_SIZE \div 2) : d % 50 = 0}

BandCall(site, i) ==
    /\ bandSite' = site
    /\ bandIndex' = i
    /\ bandOut' = [by |-> site,
                   tfft |-> getBandFrequency(i), tfftNext |-> getBandFrequency(i + 1),
                   scs |-> SCS_getBandFrequency(i), scsNext |-> SCS_getBandFrequency(i + 1)]
    /\ UNCHANGED <<appVars, mixVars, condVars, noiseVars, axisVars>>

\* getBandFrequency(index) called on its own
CallBand == \E i \in BandIndices : BandCall("call", i)

\* TFFT.SignalTransformGraph.initialize: the x labels
LabelTicks == \E d \in xTicks : BandCall("TFFT.initialize", d)

\* SCS.SignalTransformGraphView.initialize: the range of the frequency scale
FrequencyScale == BandCall("SCS.initialize", DEFAULT_BUFFER_SIZE \div 2)

BandInit == BandIdle /\ AppIdle /\ MixIdle /\ CondIdle /\ NoiseIdle /\ AxisIdle

BandNext == CallBand \/ LabelTicks \/ FrequencyScale

SpecBand == BandInit /\ [][BandNext]_vars

(* ------------------------------------------------------------------ *)
(* The noise functions on their own                                    *)
(* ------------------------------------------------------------------ *)
\* the functions made, and the amplitude each is made with
NoiseAmplitude == [f |-> 1, g |-> 2]

NoiseInputs ==
    {NumberArg(n) : n \in 0..MaxX} \cup {NegativeZero, StringArg("toString")}

\* f = Math.noise(amplitude)
MakeNoise(f) ==
    /\ f \notin DOMAIN closures
    /\ closures' = (f :> noise(NoiseAmplitude[f])) @@ closures
    /\ firstOut' = (f :> EmptyMemo) @@ firstOut
    /\ lastNoise' = NoCall
    /\ UNCHANGED <<noiseCalls, appVars, mixVars, condVars, bandVars, axisVars>>

\* f(x), f a function Math.noise returned
CallNoise(f, x) ==
    /\ f \in DOMAIN closures
    /\ noiseCalls < MaxCalls
    /\ \E r1 \in RandomOutcomes, r2 \in RandomOutcomes :
         \E res \in {noiseCall(closures[f], x, r1, r2)} :
            /\ closures' = [closures EXCEPT ![f].memo = res.memo]
            /\ firstOut' = IF PropertyKey(x) \in DOMAIN firstOut[f]
                             THEN firstOut
                             ELSE [firstOut EXCEPT
                                     ![f] = (PropertyKey(x) :> res.out) @@ @]
            /\ lastNoise' = [f |-> f, x |-> x, out |-> res.out,
                             draws |-> res.draws,
                             repeated |-> PropertyKey(x) \in DOMAIN firstOut[f]]
    /\ noiseCalls' = noiseCalls + 1
    /\ UNCHANGED <<appVars, mixVars, condVars, bandVars, axisVars>>

NoiseInit == NoiseIdle /\ AppIdle /\ MixIdle /\ CondIdle /\ BandIdle /\ AxisIdle

NoiseNext ==
    \/ \E f \in DOMAIN NoiseAmplitude : MakeNoise(f)
    \/ \E f \in DOMAIN NoiseAmplitude, x \in NoiseInputs : CallNoise(f, x)

SpecNoise == NoiseInit /\ [][NoiseNext]_vars

(* ------------------------------------------------------------------ *)
(* The x axis on its own                                               *)
(* ------------------------------------------------------------------ *)
\* TFFT.SignalTransformGraph.initialize: the label of tick d, put at x(d)
LabelBand(d) ==
    /\ axisSite' = "TFFT.xLabel"
    /\ axisIndex' = d
    /\ axisOut' = [by |-> "TFFT.xLabel", band |-> d, text |-> xLabel(d)]
    /\ UNCHANGED <<appVars, mixVars, condVars, bandVars, noiseVars>>

\* TFFT.SignalTransformGraph.initialize: the bar of band i, put at x(i) - 0.5
PlaceBar(i) ==
    /\ axisSite' = "TFFT.rect"
    /\ axisIndex' = i
    /\ axisOut' = [by |-> "TFFT.rect", band |-> i]
    /\ UNCHANGED <<appVars, mixVars, condVars, bandVars, noiseVars>>

\* SCS.SignalTransformGraphView.initialize: the bar of band i, put at
\* x(frequency(i)) on an axis in Hz
PlaceRect(i) ==
    /\ axisSite' = "SCS.rect"
    /\ axisIndex' = i
    /\ axisOut' = [by |-> "SCS.rect", hz |-> frequency(i)]
    /\ UNCHANGED <<appVars, mixVars, condVars, bandVars, noiseVars>>

AxisInit == AxisIdle /\ AppIdle /\ MixIdle /\ CondIdle /\ BandIdle /\ NoiseIdle

AxisNext ==
    \/ \E d \in xTicks : LabelBand(d)
    \/ \E i \in 0..((BUFFER_SIZE \div 2) - 1) : PlaceBar(i)
    \/ \E i \in 0..((DEFAULT_BUFFER_SIZE \div 2) - 1) : PlaceRect(i)

SpecAxis == AxisInit /\ [][AxisNext]_vars

(* ------------------------------------------------------------------ *)
(* Claims                                                              *)
(* ------------------------------------------------------------------ *)
Mixed == mixed.error = "none"

NoNoise(sq) == NoiseCount(sq) = 0

\* the floating-point sum of sample i of the first k buffers, in order
RECURSIVE PlainSum(_, _, _)
PlainSum(gens, k, i) ==
    IF k = 1 THEN gens[1].at[i]
    ELSE Fround(PlainSum(gens, k - 1, i) + gens[k].at[i])

\* the sum of the magnitudes of sample i of the first k buffers
RECURSIVE AbsSum(_, _, _)
AbsSum(gens, k, i) ==
    IF k = 0 THEN 0 ELSE AbsSum(gens, k - 1, i) + Abs(gens[k].at[i])

\* C1: for every non-empty sequence of descriptors, of any length and kinds,
\* getTotalSignal returns a buffer, and its length is exactly BUFFER_SIZE.
C1_LengthIsBufferSize ==
    (mixed # Idle /\ Len(descs) >= 1) =>
        /\ mixed.error = "none"
        /\ mixed.signal.length = BUFFER_SIZE
        /\ mixedPerm.error = "none"
        /\ mixedPerm.signal.length = BUFFER_SIZE

C1_Witness ==
    /\ Mixed
    /\ Len(descs) = MaxMixed
    /\ mixed.signal.length = BUFFER_SIZE

\* C2: the buffer getTotalSignal returns holds at every index the plain sum,
\* taken in collection order with no scaling or averaging, of that sample of
\* the buffers the generator returned for the descriptors; one descriptor
\* mixed alone gives its generator output unchanged.
C2_PlainSumOfGenerated ==
    Mixed =>
        /\ Len(mixed.generated) = Len(descs)
        /\ \A k \in 1..Len(descs) :
              \E seed \in 1..NoiseSeeds :
                 mixed.generated[k] = generate(getOscillator(descs[k]), seed)
        /\ \A i \in Probes(BUFFER_SIZE) :
              mixed.signal.at[i] = PlainSum(mixed.generated, Len(descs), i)
        /\ Len(descs) = 1 => mixed.signal = mixed.generated[1]

C2_Witness ==
    /\ Mixed
    /\ Len(descs) >= 2
    /\ \E i \in Probes(BUFFER_SIZE) :
          /\ mixed.generated[1].at[i] # 0
          /\ mixed.generated[2].at[i] # 0
          /\ mixed.signal.at[i] # mixed.generated[1].at[i]
          /\ mixed.signal.at[i] = PlainSum(mixed.generated, Len(descs), i)

\* C3, as claimed: getTotalSignal returns the same buffer for a sequence of
\* descriptors and for every permutation of it.
C3_SameBufferInEveryOrder ==
    Mixed => mixedPerm.signal = mixed.signal

\* C3, amended: for descriptors with a deterministic generator (none of kind
\* Noise), the buffers of the two orders have the same length and agree at
\* every index within the floating-point summation tolerance
\* 2 * g * sum|sample|, g = (n - 1) * u / (1 - (n - 1) * u), u = 2^-MantissaBits.
C3_SameBufferWithinTolerance ==
    (Mixed /\ NoNoise(descs)) =>
        /\ mixedPerm.error = "none"
        /\ mixedPerm.signal.length = mixed.signal.length
        /\ \A i \in Probes(BUFFER_SIZE) :
              Abs(mixed.signal.at[i] - mixedPerm.signal.at[i])
                    * (Pow2(MantissaBits) - (Len(descs) - 1))
                 <= 2 * (Len(descs) - 1) * AbsSum(mixed.generated, Len(descs), i)

C3_Witness ==
    /\ Mixed
    /\ NoNoise(descs)
    /\ Len(descs) = 3
    /\ mixedPerm.signal # mixed.signal

\* C4: applied to magnitudes of which at least one is strictly positive, the
\* conditioner of either render returns a sequence of the same length whose
\* finite elements are all <= 0 and one of whose elements is exactly 0.
C4_PeakIsZero ==
    (conditioned.by # "none" /\ \E i \in DOMAIN magnitudes.at : magnitudes.at[i] > 0) =>
        LET data == conditioned.out.data
        IN /\ data.length = magnitudes.length
           /\ DOMAIN data.at = DOMAIN magnitudes.at
           /\ \A i \in DOMAIN data.at : IsFinite(data.at[i]) => data.at[i].v <= 0
           /\ \E i \in DOMAIN data.at : data.at[i] = Fin(0)

C4_Witness ==
    /\ conditioned.by = "TFFT"
    /\ \E i, j, k \in DOMAIN magnitudes.at :
          /\ magnitudes.at[i] = 0
          /\ magnitudes.at[j] > magnitudes.at[k]
          /\ magnitudes.at[k] > 0
          /\ conditioned.out.data.at[j] = Fin(0)
          /\ IsFinite(conditioned.out.data.at[k])
          /\ conditioned.out.data.at[k].v < 0

Silent(array) == \A i \in DOMAIN array.at : array.at[i] = 0

\* C5: applied to an all-zero magnitude sequence, the conditioner signals the
\* degenerate spectrum (its peak is undefined) and hands on no NaN and no
\* -infinity.
C5_SilenceIsSignalled ==
    (conditioned.by # "none" /\ Silent(magnitudes)) =>
        /\ conditioned.out.peak.t = "undef"
        /\ \A i \in DOMAIN conditioned.out.data.at :
              conditioned.out.data.at[i].t \notin {"nan", "-inf"}

\* C6: getTotalSignal called on an empty collection fails with an error, one
\* that no call on a non-empty collection ends with, and returns no buffer.
C6_EmptyMixFails ==
    (lastOp # "none") =>
        /\ (Len(models) = 0) = (total.error = "TypeError")
        /\ Len(models) = 0 => (total.signal = NoArray /\ thrown = "TypeError")
        /\ Len(models) > 0 => total.error = "none"

C6_Witness ==
    /\ lastOp = "remove"
    /\ Len(models) = 0
    /\ total.error = "TypeError"
    /\ total.signal = NoArray

\* the buffers a getTotalSignal call on ms can have generated
GeneratedFrom(gens, ms) ==
    /\ Len(gens) = Len(ms)
    /\ \A k \in 1..Len(ms) :
          \E seed \in 1..NoiseSeeds : gens[k] = generate(getOscillator(ms[k]), seed)

\* C7: after every mutation of the collection at least one render has run,
\* and the chart shows the composite buffer, spectrum and conditioned
\* spectrum computed from the collection as the mutation left it.
C7_RecomputedFromCurrentCollection ==
    (lastOp # "none") =>
        /\ renders >= 1
        /\ total.error = "none"
        /\ GeneratedFrom(total.generated, models)
        /\ total.signal = eachRest(total.generated, 2, total.generated[1])
        /\ spectrum = forward(BUFFER_SIZE, SAMPLE_RATE, total.signal).spectrum
        /\ rects = TFFT_condition(spectrum).data

\* C8: no mutation ends in an uncaught error, and an empty collection or a
\* collection of silent descriptors (an all-zero spectrum) reaches the chart
\* as no data rather than as NaN bars or as the bars of an earlier collection.
C8_ErrorsBecomeNoData ==
    (lastOp # "none") =>
        /\ thrown = "none"
        /\ (\A k \in 1..Len(models) : models[k].amplitude = 0) =>
              \A i \in DOMAIN rects.at : rects.at[i].t \notin {"nan", "fin"}

InRange(index) == 0 <= index /\ index < BUFFER_SIZE \div 2

\* C9: with BUFFER_SIZE = 2048 and SAMPLE_RATE = 44100, BANDWIDTH is
\* SAMPLE_RATE / BUFFER_SIZE, getBandFrequency(0) is BANDWIDTH / 2 and
\* consecutive valid indices are BANDWIDTH apart, in TFFT and in SCS.
C9_BandCentresUniform ==
    /\ BUFFER_SIZE = 2048 /\ SAMPLE_RATE = 44100
    /\ BANDWIDTH * BUFFER_SIZE = SAMPLE_RATE * HzUnit
    /\ DEFAULT_BANDWIDTH * DEFAULT_BUFFER_SIZE = DEFAULT_SAMPLE_RATE * HzUnit
    /\ (bandSite # "none" /\ InRange(bandIndex)) =>
          /\ bandOut.tfft.error = "none"
          /\ bandOut.scs.error = "none"
          /\ bandIndex = 0 =>
                /\ 2 * bandOut.tfft.hz = BANDWIDTH
                /\ 2 * bandOut.scs.hz = DEFAULT_BANDWIDTH
          /\ InRange(bandIndex + 1) =>
                /\ bandOut.tfftNext.hz - bandOut.tfft.hz = BANDWIDTH
                /\ bandOut.scsNext.hz - bandOut.scs.hz = DEFAULT_BANDWIDTH

C9_Witness ==
    /\ bandSite = "call"
    /\ bandIndex = (BUFFER_SIZE \div 2) - 2
    /\ bandOut.tfftNext.hz - bandOut.tfft.hz = BANDWIDTH
    /\ bandOut.tfft.hz = BANDWIDTH * bandIndex + (BANDWIDTH \div 2)

\* C10: getBandFrequency called with an index outside [0, BUFFER_SIZE / 2)
\* ends with an error instead of a frequency, and neither view calls it with
\* such an index.
C10_OutOfRangeIsAnError ==
    (bandSite # "none" /\ ~InRange(bandIndex)) =>
        /\ bandOut.tfft.error # "none"
        /\ bandOut.scs.error # "none"
        /\ bandSite = "call"

\* C11: every call f(x) of a function f that Math.noise returned gives what
\* the first call of f with that x gave; no call but the first with an x
\* draws from the random source, the first call with a number does; and the
\* memo of one function holds nothing another function drew.
C11_NoiseIsMemoized ==
    /\ lastNoise # NoCall =>
          /\ lastNoise.out = firstOut[lastNoise.f][PropertyKey(lastNoise.x)]
          /\ lastNoise.draws > 0 => ~lastNoise.repeated
          /\ (lastNoise.x.kind = "number" /\ ~lastNoise.repeated) =>
                lastNoise.draws = 2
    /\ \A f \in DOMAIN closures :
          /\ DOMAIN closures[f].memo \subseteq DOMAIN firstOut[f]
          /\ \A key \in DOMAIN closures[f].memo :
                closures[f].memo[key] = firstOut[f][key]

C11_Witness ==
    /\ lastNoise # NoCall
    /\ lastNoise.repeated
    /\ lastNoise.x = NegativeZero
    /\ lastNoise.draws = 0
    /\ lastNoise.out = firstOut[lastNoise.f]["0"]
    /\ \E g \in DOMAIN closures :
          /\ g # lastNoise.f
          /\ "0" \in DOMAIN closures[g].memo
          /\ closures[g].memo["0"] # lastNoise.out

Positive(array) == {i \in DOMAIN array.at : array.at[i] > 0}

\* C12: when some band is strictly positive, a band of magnitude 0 is
\* -infinity after Math.toDecibels and still -infinity in the normalized
\* sequence of either render (not NaN, not a finite value), and the peak is
\* the largest decibel value of the positive bands: -infinity entries do not
\* enter it.
C12_SilentBandStaysMinusInfinity ==
    (conditioned.by # "none" /\ Positive(magnitudes) # {}) =>
        /\ \A i \in DOMAIN magnitudes.at :
              magnitudes.at[i] = 0 =>
                 /\ toDecibels(magnitudes.at[i]) = NegInf
                 /\ conditioned.out.data.at[i] = NegInf
        /\ IsFinite(conditioned.out.peak)
        /\ \E j \in Positive(magnitudes) :
              conditioned.out.peak = toDecibels(magnitudes.at[j])
        /\ \A j \in Positive(magnitudes) :
              ExtLe(toDecibels(magnitudes.at[j]), conditioned.out.peak)

C12_Witness ==
    /\ conditioned.by = "SCS"
    /\ magnitudes.length = MaxBands
    /\ magnitudes.at[0] = 0
    /\ magnitudes.at[1] > 0
    /\ magnitudes.at[2] = 0
    /\ conditioned.out.data.at[0] = NegInf
    /\ conditioned.out.data.at[1] = Fin(0)
    /\ conditioned.out.data.at[2] = NegInf
    /\ conditioned.out.peak = toDecibels(magnitudes.at[1])

\* C13: the views put and label band i at getBandFrequency(i): a TFFT bar
\* and a TFFT label of the same band share a place and a label's text is
\* getBandFrequency of its band, rounded for display (less than 5.5 Hz
\* away); an SCS bar is put at exactly SCS.getBandFrequency(i) on the axis.
C13_AxisMatchesBandFrequency ==
    /\ axisSite \in {"TFFT.xLabel", "TFFT.rect"} =>
          /\ axisOut.band = axisIndex
          /\ InRange(axisIndex)
    /\ axisSite = "TFFT.xLabel" =>
          2 * Abs(axisOut.text * HzUnit - getBandFrequency(axisIndex).hz)
             < 11 * HzUnit
    /\ axisSite = "SCS.rect" =>
          /\ axisOut.hz.whole = SCS_getBandFrequency(axisIndex).hz
          /\ axisOut.hz.num = 0

\* C14: in a render of a spectrum with a strictly positive magnitude, every
\* finite value bound to the bars lies within the domain of the y scale that
\* render builds.
C14_DrawnValuesInsideYDomain ==
    (conditioned.by # "none" /\ Positive(magnitudes) # {}) =>
        \A i \in DOMAIN conditioned.out.data.at :
           IsFinite(conditioned.out.data.at[i]) =>
              /\ ExtLe(conditioned.out.domain[1], conditioned.out.data.at[i])
              /\ ExtLe(conditioned.out.data.at[i], conditioned.out.domain[2])

====
